---- MODULE Spec2Model ----
(***************************************************************************)
(* Model of src/app.py (AI Resume Optimizer).                              *)
(*                                                                         *)
(* A Python str is a sequence of one-character strings; a Python list is   *)
(* a sequence; a Python dict is a sequence of [key, val] records kept in   *)
(* insertion order (assigning to an existing key keeps its position).      *)
(* The generation capability `analyzer` is external: every call either     *)
(* returns a text drawn from a small set or raises with a description      *)
(* drawn from a small set.                                                 *)
(***************************************************************************)
EXTENDS Integers, Sequences, FiniteSets, TLC

VARIABLES
    pc,          \* position of the running function / script
    text,        \* the resume text (resume_text, or the argument `text`)
    max_tokens,  \* chunk_text's argument max_tokens
    sections,    \* dict returned by split_sections
    secIdx,      \* generate_feedback: index of the section being rewritten
    chunks,      \* rewrite_section: list returned by chunk_text
    chunkIdx,    \* rewrite_section: index of the chunk of the current call
    fbAcc,       \* rewrite_section: local string `feedback`
    feedback,    \* generate_feedback: dict `feedback`
    calls,       \* the calls made to analyzer in this run, with their outcome
    role,        \* infer_role_keywords: role
    keywords,    \* list of keywords
    present,     \* check_ats_keywords: present
    missing,     \* check_ats_keywords: missing
    done,        \* which results of the script run exist so far
    button,      \* value st.button("Generate PDF") returns in this run
    pdf          \* the feedback keys and role flag written by create_pdf

vars == <<pc, text, max_tokens, sections, secIdx, chunks, chunkIdx, fbAcc,
          feedback, calls, role, keywords, present, missing, done, button, pdf>>

----------------------------------------------------------------------------
(* Bounds of the model *)

\* split_sections inputs: at most this many lines per text
MaxLines == 3
\* chunk_text inputs: at most this many characters per text
MaxTextLen == 5
\* chunk_text inputs: max_tokens ranges over 1..MaxM
MaxM == 2
\* check_ats_keywords inputs: at most this many keywords
MaxKeywords == 2
\* check_ats_keywords inputs: at most this many characters per text
MaxAtsTextLen == 3
\* request flow: at most this many lines in the uploaded resume
MaxFlowLines == 3

----------------------------------------------------------------------------
(* Python str / list / dict primitives *)

NL == "\n"
SP == " "
TAB == "\t"

\* str.strip() / str.split() whitespace
IsSpace(c) == c \in {SP, NL, TAB}

LowerAlpha == <<"a","b","c","d","e","f","g","h","i","j","k","l","m",
                "n","o","p","q","r","s","t","u","v","w","x","y","z">>
UpperAlpha == <<"A","B","C","D","E","F","G","H","I","J","K","L","M",
                "N","O","P","Q","R","S","T","U","V","W","X","Y","Z">>

\* str.upper() on one character
UpperChar(c) ==
    IF \E i \in 1..26 : LowerAlpha[i] = c
    THEN UpperAlpha[CHOOSE i \in 1..26 : LowerAlpha[i] = c]
    ELSE c

\* str.lower() on one character (re.I compares case-insensitively)
LowerChar(c) ==
    IF \E i \in 1..26 : UpperAlpha[i] = c
    THEN LowerAlpha[CHOOSE i \in 1..26 : UpperAlpha[i] = c]
    ELSE c

\* str.upper()
Upper(s) == [i \in 1..Len(s) |-> UpperChar(s[i])]

\* str.strip()
Strip(s) ==
    IF \A i \in 1..Len(s) : IsSpace(s[i]) THEN <<>>
    ELSE SubSeq(s,
                CHOOSE i \in 1..Len(s) :
                    ~IsSpace(s[i]) /\ \A j \in 1..(i - 1) : IsSpace(s[j]),
                CHOOSE i \in 1..Len(s) :
                    ~IsSpace(s[i]) /\ \A j \in (i + 1)..Len(s) : IsSpace(s[j]))

\* the element of a one-element set; {e(x) : x \in {v}} evaluates v once
The(S) == CHOOSE x \in S : TRUE

\* L and R with the last element of L and the first of R made one
Glue(L, R) == SubSeq(L, 1, Len(L) - 1) \o << L[Len(L)] \o R[1] >> \o Tail(R)

\* pieces of s[lo..hi] between occurrences of sep, empty pieces kept
RECURSIVE SplitRange(_, _, _, _)
SplitRange(s, sep, lo, hi) ==
    IF lo > hi THEN << <<>> >>
    ELSE IF lo = hi THEN (IF s[lo] = sep THEN << <<>>, <<>> >> ELSE << <<s[lo]>> >>)
    ELSE The({ Glue(L, R) :
                 L \in {SplitRange(s, sep, lo, (lo + hi) \div 2)},
                 R \in {SplitRange(s, sep, (lo + hi) \div 2 + 1, hi)} })

\* str.split(sep) for a one-character separator
Split(s, sep) == SplitRange(s, sep, 1, Len(s))

\* maximal runs of non-whitespace characters of s[lo..hi]; a run touching
\* either end of the range is still open and is merged by the caller
RECURSIVE WordsRange(_, _, _)
WordsRange(s, lo, hi) ==
    IF lo > hi THEN <<>>
    ELSE IF lo = hi THEN (IF IsSpace(s[lo]) THEN <<>> ELSE << <<s[lo]>> >>)
    ELSE The({ IF ~IsSpace(s[(lo + hi) \div 2]) /\ ~IsSpace(s[(lo + hi) \div 2 + 1])
               THEN Glue(L, R)
               ELSE L \o R :
                 L \in {WordsRange(s, lo, (lo + hi) \div 2)},
                 R \in {WordsRange(s, (lo + hi) \div 2 + 1, hi)} })

\* str.split() with no argument: the whitespace-delimited words
Words(s) == WordsRange(s, 1, Len(s))

\* sep.join(ws[lo..hi])
RECURSIVE JoinRange(_, _, _, _)
JoinRange(ws, sep, lo, hi) ==
    IF lo > hi THEN <<>>
    ELSE IF lo = hi THEN ws[lo]
    ELSE JoinRange(ws, sep, lo, (lo + hi) \div 2) \o sep
            \o JoinRange(ws, sep, (lo + hi) \div 2 + 1, hi)

\* sep.join(ws)
Join(ws, sep) == JoinRange(ws, sep, 1, Len(ws))

\* k in d
DictHas(d, k) == \E i \in 1..Len(d) : d[i].key = k

\* d[k]
DictGet(d, k) == d[CHOOSE i \in 1..Len(d) : d[i].key = k].val

\* d[k] = v : an existing key keeps its position, a new key goes last
DictSet(d, k, v) ==
    IF DictHas(d, k)
    THEN [i \in 1..Len(d) |-> IF d[i].key = k THEN [key |-> k, val |-> v] ELSE d[i]]
    ELSE Append(d, [key |-> k, val |-> v])

\* list(d.keys())
DictKeys(d) == [i \in 1..Len(d) |-> d[i].key]

----------------------------------------------------------------------------
(* split_sections *)

SUMMARY    == <<"S","U","M","M","A","R","Y">>
EXPERIENCE == <<"E","X","P","E","R","I","E","N","C","E">>
SKILLS     == <<"S","K","I","L","L","S">>
PROJECTS   == <<"P","R","O","J","E","C","T","S">>
EDUCATION  == <<"E","D","U","C","A","T","I","O","N">>

Headers == {SUMMARY, EXPERIENCE, SKILLS, PROJECTS, EDUCATION}

\* one iteration of the loop over lines; st = [cur, secs] holds
\* current_sec and sections
SplitStep(st, line) ==
    The({ IF Upper(stripped) \in Headers
          THEN [cur |-> Upper(stripped),
                secs |-> DictSet(st.secs, Upper(stripped), <<>>)]
          ELSE [cur |-> st.cur,
                secs |-> DictSet(st.secs, st.cur,
                                 DictGet(st.secs, st.cur) \o line \o <<NL>>)] :
          stripped \in {Strip(line)} })

\* the loop over lines, from line i on
RECURSIVE SplitLoop(_, _, _)
SplitLoop(st, lines, i) ==
    IF i > Len(lines) THEN st
    ELSE The({ SplitLoop(nx, lines, i + 1) : nx \in {SplitStep(st, lines[i])} })

split_sections(t) ==
    The({ SplitLoop([cur |-> SUMMARY, secs |-> DictSet(<<>>, SUMMARY, <<>>)],
                    lines, 1).secs :
          lines \in {Split(t, NL)} })

----------------------------------------------------------------------------
(* chunk_text *)

Min(a, b) == IF a <= b THEN a ELSE b

\* chunk_text with the slice taken one word too long: words[i:i+m+1]
chunk_text_overlap(t, m) ==
    The({ [k \in 1..((Len(words) + m - 1) \div m) |->
              JoinRange(words, <<SP>>, (k - 1) * m + 1, Min(k * m + 1, Len(words)))] :
          words \in {Words(t)} })

\* " ".join(words[i:i+m]) for i in range(0, len(words), m), i = (k-1)*m
chunk_text(t, m) ==
    The({ [k \in 1..((Len(words) + m - 1) \div m) |->
              JoinRange(words, <<SP>>, (k - 1) * m + 1, Min(k * m, Len(words)))] :
          words \in {Words(t)} })

----------------------------------------------------------------------------
(* rewrite_section *)

\* max_tokens passed by rewrite_section
RewriteMaxTokens == 300

\* " section is missing or empty."
MissingSuffix ==
    <<" ","s","e","c","t","i","o","n"," ","i","s"," ","m","i","s","s","i","n","g",
      " ","o","r"," ","e","m","p","t","y",".">>

\* "Error analyzing chunk: "
ErrorPrefix ==
    <<"E","r","r","o","r"," ","a","n","a","l","y","z","i","n","g"," ",
      "c","h","u","n","k",":"," ">>

\* the blank test without strip(): not section_text
IsBlank_noStrip(s) == s = <<>>

\* not section_text.strip()
IsBlank(s) == Strip(s) = <<>>

\* feedback += response.strip() + "\n"
AppendResponse(fb, response) == fb \o Strip(response) \o <<NL>>

\* feedback += f"Error analyzing chunk: {str(e)}\n"
AppendError(fb, desc) == fb \o ErrorPrefix \o desc \o <<NL>>

----------------------------------------------------------------------------
(* infer_role_keywords, check_ats_keywords *)

\* [kw.strip() for kw in response.split(",") if kw.strip()]
ParseKeywords(response) ==
    LET parts == Split(response, ",")
        stripped == [i \in 1..Len(parts) |-> Strip(parts[i])]
    IN SelectSeq(stripped, LAMBDA kw : kw # <<>>)

\* \w of the re module, on the characters of the model
IsWordChar(c) ==
    \/ \E i \in 1..26 : LowerAlpha[i] = c \/ UpperAlpha[i] = c
    \/ c \in {"0","1","2","3","4","5","6","7","8","9","_"}

\* \b between t[pos] and t[pos+1]; outside the text counts as a non-word
Boundary(t, pos) ==
    LET w(i) == i \in 1..Len(t) /\ IsWordChar(t[i])
    IN w(pos) # w(pos + 1)

\* one pattern character of the keyword, interpolated unescaped, against one
\* text character under re.I: "." is the wildcard, letters, digits and the
\* space stand for themselves
PatternCharMatches(p, c) ==
    IF p = "." THEN c # NL ELSE LowerChar(p) = LowerChar(c)

\* re.search(rf"\b{kw}\b", t, re.I) is not None, for kw over letters,
\* digits, spaces and "."
ReSearch(kw, t) ==
    \E st \in 0..(Len(t) - Len(kw)) :
        /\ Boundary(t, st)
        /\ \A i \in 1..Len(kw) : PatternCharMatches(kw[i], t[st + i])
        /\ Boundary(t, st + Len(kw))

\* x in xs
InList(xs, x) == \E i \in 1..Len(xs) : xs[i] = x

\* present of check_ats_keywords
AtsPresent(t, kws) == SelectSeq(kws, LAMBDA kw : ReSearch(kw, t))

\* missing of check_ats_keywords
AtsMissing(t, kws) ==
    LET p == AtsPresent(t, kws)
    IN SelectSeq(kws, LAMBDA kw : ~InList(p, kw))

----------------------------------------------------------------------------
(* Inputs *)

\* all sequences of at most n elements of S
SeqsUpTo(S, n) == UNION {[1..k -> S] : k \in 0..n}

BuiltSystems == <<"B","u","i","l","t"," ","s","y","s","t","e","m","s",".">>
LedTeam      == <<"L","e","d"," ","t","e","a","m"," ","o","f"," ","5",".">>

\* "SUMMARY\nBuilt systems.\nEXPERIENCE\nLed team of 5.\n"
ExampleText ==
    SUMMARY \o <<NL>> \o BuiltSystems \o <<NL>> \o EXPERIENCE \o <<NL>>
        \o LedTeam \o <<NL>>

\* lines of the texts given to split_sections: two headers (one of them in
\* lower case with surrounding blanks), a content line and the empty line
SplitLineSet == {SUMMARY, <<" ","s","k","i","l","l","s"," ">>, <<"x">>, <<>>}

\* texts given to split_sections: the lines joined by "\n", with or without
\* a newline at the end, and the example text
SplitTexts ==
    {Join(ls, <<NL>>) \o tl : ls \in SeqsUpTo(SplitLineSet, MaxLines),
                              tl \in {<<>>, <<NL>>}}
    \cup {ExampleText}

\* texts given to chunk_text
ChunkTexts == SeqsUpTo({"a", SP, NL}, MaxTextLen)

\* texts and keywords given to check_ats_keywords
AtsTexts == SeqsUpTo({"a", "B", SP}, MaxAtsTextLen)
AtsKeywordSet == {<<"a">>, <<"A">>, <<"a","b">>, <<"a"," ","b">>, <<"a",".","b">>}
AtsKeywordLists == SeqsUpTo(AtsKeywordSet, MaxKeywords)

\* a line of 301 words: one word more than one chunk holds
LongLine == [i \in 1..(2 * RewriteMaxTokens + 1) |-> IF i % 2 = 1 THEN "w" ELSE SP]

\* short lines of the uploaded resume: two headers (one in lower case),
\* a blank line and a content line
FlowLineSet == {SKILLS, <<"s","u","m","m","a","r","y">>, <<SP>>,
                <<"d","i","d"," ","x">>}

\* resumes with a section of more than one chunk: 301 words, 602 words in
\* two lines, and a short section followed by a section of 301 words
LongTexts ==
    {LongLine,
     LongLine \o <<NL>> \o LongLine,
     <<"d","i","d"," ","x">> \o <<NL>> \o SKILLS \o <<NL>> \o LongLine}

\* the uploaded resumes, as extract_text returns them
FlowTexts ==
    {Join(ls, <<NL>>) : ls \in SeqsUpTo(FlowLineSet, MaxFlowLines)} \cup LongTexts

\* what analyzer returns ([0]['generated_text']) or raises (str(e))
RewriteResponses == {<<SP,"o","k",NL>>, <<>>}
RoleResponses    == {<<SP,"d","e","v",NL>>, <<SP>>}
KeywordResponses == {<<"w",",",SP,"X",SP,",",",">>}
FailDescs        == {<<"b","o","o","m">>}

----------------------------------------------------------------------------
(* State *)

\* values of the variables a function or script run does not use (yet)
Fresh ==
    /\ sections = <<>>
    /\ secIdx = 0
    /\ chunks = <<>>
    /\ chunkIdx = 0
    /\ fbAcc = <<>>
    /\ feedback = <<>>
    /\ calls = <<>>
    /\ role = <<>>
    /\ present = <<>>
    /\ missing = <<>>
    /\ done = {}
    /\ button = FALSE
    /\ pdf = <<>>

----------------------------------------------------------------------------
(* split_sections as a function call *)

InitSplit ==
    /\ pc = "split_in"
    /\ text \in SplitTexts
    /\ max_tokens = 0
    /\ keywords = <<>>
    /\ Fresh

SplitSections ==
    /\ pc = "split_in"
    /\ sections' = split_sections(text)
    /\ pc' = "split_out"
    /\ UNCHANGED <<text, max_tokens, secIdx, chunks, chunkIdx, fbAcc, feedback,
                   calls, role, keywords, present, missing, done, button, pdf>>

NextSplit == SplitSections

SpecSplit == InitSplit /\ [][NextSplit]_vars

----------------------------------------------------------------------------
(* chunk_text as a function call *)

InitChunk ==
    /\ pc = "chunk_in"
    /\ text \in ChunkTexts
    /\ max_tokens \in 1..MaxM
    /\ keywords = <<>>
    /\ Fresh

ChunkText ==
    /\ pc = "chunk_in"
    /\ chunks' = chunk_text(text, max_tokens)
    /\ pc' = "chunk_out"
    /\ UNCHANGED <<text, max_tokens, sections, secIdx, chunkIdx, fbAcc, feedback,
                   calls, role, keywords, present, missing, done, button, pdf>>

NextChunk == ChunkText

SpecChunk == InitChunk /\ [][NextChunk]_vars

----------------------------------------------------------------------------
(* check_ats_keywords as a function call *)

InitAts ==
    /\ pc = "ats_in"
    /\ text \in AtsTexts
    /\ keywords \in AtsKeywordLists
    /\ max_tokens = 0
    /\ Fresh

CheckAts ==
    /\ pc = "ats_in"
    /\ present' = AtsPresent(text, keywords)
    /\ missing' = AtsMissing(text, keywords)
    /\ pc' = "ats_out"
    /\ UNCHANGED <<text, max_tokens, sections, secIdx, chunks, chunkIdx, fbAcc,
                   feedback, calls, role, keywords, done, button, pdf>>

NextAts == CheckAts

SpecAts == InitAts /\ [][NextAts]_vars

----------------------------------------------------------------------------
(* create_pdf *)

\* the bullet lines of one feedback text: "- " + line.strip() for every
\* line of fb.split("\n") with line.strip()
Bullets(fb) ==
    LET ls == Split(fb, NL)
        kept == SelectSeq(ls, LAMBDA l : Strip(l) # <<>>)
    IN [i \in 1..Len(kept) |-> <<"-", SP>> \o Strip(kept[i])]

\* what create_pdf writes after the title: per section its heading and
\* bullets, then, if role is not empty, the role and the two keyword lists
\* (an empty list is written as None)
create_pdf(fb, r, p, m) ==
    [body |-> [i \in 1..Len(fb) |-> [heading |-> fb[i].key,
                                     bullets |-> Bullets(fb[i].val)]],
     ats  |-> IF r # <<>>
              THEN << [role |-> r,
                       present |-> IF p # <<>> THEN p ELSE << <<"N","o","n","e">> >>,
                       missing |-> IF m # <<>> THEN m ELSE << <<"N","o","n","e">> >>] >>
              ELSE <<>>]

----------------------------------------------------------------------------
(* The script run on an uploaded file: generate_feedback, rewrite_section,  *)
(* infer_role_keywords, check_ats_keywords, create_pdf                      *)

\* a call of analyzer, as it is made
Call(kind, sec, chunk) ==
    [kind |-> kind, sec |-> sec, chunk |-> chunk, status |-> "pending", out |-> <<>>]

\* the last call of cs, as it ends
EndCall(cs, status, out) ==
    [cs EXCEPT ![Len(cs)].status = status, ![Len(cs)].out = out]

Init ==
    /\ pc = "start"
    /\ text \in FlowTexts
    /\ max_tokens = 0
    /\ keywords = <<>>
    /\ Fresh

\* generate_feedback is entered: sections = split_sections(text), feedback = {}
GenerateFeedback ==
    /\ pc = "start"
    /\ sections' = split_sections(text)
    /\ feedback' = <<>>
    /\ secIdx' = 1
    /\ pc' = "gf_loop"
    /\ UNCHANGED <<text, max_tokens, chunks, chunkIdx, fbAcc, calls, role,
                   keywords, present, missing, done, button, pdf>>

\* rewrite_section on a blank section: the fixed message, no call
RewriteBlank ==
    /\ pc = "gf_loop"
    /\ secIdx <= Len(sections)
    /\ IsBlank(sections[secIdx].val)
    /\ feedback' = DictSet(feedback, sections[secIdx].key,
                           sections[secIdx].key \o MissingSuffix)
    /\ secIdx' = secIdx + 1
    /\ UNCHANGED <<pc, text, max_tokens, sections, chunks, chunkIdx, fbAcc, calls,
                   role, keywords, present, missing, done, button, pdf>>

\* rewrite_section on a non-blank section: chunks, feedback = ""
RewriteEnter ==
    /\ pc = "gf_loop"
    /\ secIdx <= Len(sections)
    /\ ~IsBlank(sections[secIdx].val)
    /\ max_tokens' = RewriteMaxTokens
    /\ chunks' = chunk_text(sections[secIdx].val, RewriteMaxTokens)
    /\ fbAcc' = <<>>
    /\ chunkIdx' = 1
    /\ pc' = "rs_loop"
    /\ UNCHANGED <<text, sections, secIdx, feedback, calls, role, keywords,
                   present, missing, done, button, pdf>>

\* the next chunk's prompt is built and analyzer is called with it
RewriteCall ==
    /\ pc = "rs_loop"
    /\ chunkIdx <= Len(chunks)
    /\ calls' = Append(calls, Call("rewrite", sections[secIdx].key, chunkIdx))
    /\ pc' = "rs_call"
    /\ UNCHANGED <<text, max_tokens, sections, secIdx, chunks, chunkIdx, fbAcc,
                   feedback, role, keywords, present, missing, done, button, pdf>>

\* the call returns: feedback += response.strip() + "\n"
RewriteReturn ==
    /\ pc = "rs_call"
    /\ \E response \in RewriteResponses :
        /\ fbAcc' = AppendResponse(fbAcc, response)
        /\ calls' = EndCall(calls, "returned", response)
    /\ chunkIdx' = chunkIdx + 1
    /\ pc' = "rs_loop"
    /\ UNCHANGED <<text, max_tokens, sections, secIdx, chunks, feedback, role,
                   keywords, present, missing, done, button, pdf>>

\* RewriteRaise leaving the loop over chunks after the marker (a break)
RewriteRaise_break ==
    /\ pc = "rs_call"
    /\ \E desc \in FailDescs :
        /\ fbAcc' = AppendError(fbAcc, desc)
        /\ calls' = EndCall(calls, "raised", desc)
    /\ chunkIdx' = Len(chunks) + 1
    /\ pc' = "rs_loop"
    /\ UNCHANGED <<text, max_tokens, sections, secIdx, chunks, feedback, role,
                   keywords, present, missing, done, button, pdf>>

\* RewriteRaise without the try/except: the exception ends the script run
RewriteRaise_propagate ==
    /\ pc = "rs_call"
    /\ \E desc \in FailDescs : calls' = EndCall(calls, "raised", desc)
    /\ pc' = "aborted"
    /\ UNCHANGED <<text, max_tokens, sections, secIdx, chunks, chunkIdx, fbAcc,
                   feedback, role, keywords, present, missing, done, button, pdf>>

\* RewriteRaise with one retry: a chunk whose call failed for the first
\* time is called again
RewriteRaise_retry ==
    /\ pc = "rs_call"
    /\ \E desc \in FailDescs :
        /\ fbAcc' = AppendError(fbAcc, desc)
        /\ calls' = EndCall(calls, "raised", desc)
    /\ chunkIdx' = IF /\ Len(calls) >= 2
                      /\ calls[Len(calls) - 1].sec = calls[Len(calls)].sec
                      /\ calls[Len(calls) - 1].chunk = chunkIdx
                   THEN chunkIdx + 1
                   ELSE chunkIdx
    /\ pc' = "rs_loop"
    /\ UNCHANGED <<text, max_tokens, sections, secIdx, chunks, feedback, role,
                   keywords, present, missing, done, button, pdf>>

\* the call raises: except Exception, feedback += "Error analyzing chunk: ..."
RewriteRaise ==
    /\ pc = "rs_call"
    /\ \E desc \in FailDescs :
        /\ fbAcc' = AppendError(fbAcc, desc)
        /\ calls' = EndCall(calls, "raised", desc)
    /\ chunkIdx' = chunkIdx + 1
    /\ pc' = "rs_loop"
    /\ UNCHANGED <<text, max_tokens, sections, secIdx, chunks, feedback, role,
                   keywords, present, missing, done, button, pdf>>

\* rewrite_section returns feedback.strip(); feedback[sec] = that
RewriteExit ==
    /\ pc = "rs_loop"
    /\ chunkIdx > Len(chunks)
    /\ feedback' = DictSet(feedback, sections[secIdx].key, Strip(fbAcc))
    /\ secIdx' = secIdx + 1
    /\ pc' = "gf_loop"
    /\ UNCHANGED <<text, max_tokens, sections, chunks, chunkIdx, fbAcc, calls,
                   role, keywords, present, missing, done, button, pdf>>

\* generate_feedback returns; the script shows the feedback
GenerateFeedbackReturn ==
    /\ pc = "gf_loop"
    /\ secIdx > Len(sections)
    /\ done' = done \cup {"feedback"}
    /\ pc' = "gf_done"
    /\ UNCHANGED <<text, max_tokens, sections, secIdx, chunks, chunkIdx, fbAcc,
                   feedback, calls, role, keywords, present, missing, button, pdf>>

\* infer_role_keywords: analyzer(prompt_role)
RoleCall ==
    /\ pc = "gf_done"
    /\ calls' = Append(calls, Call("role", <<>>, 0))
    /\ pc' = "role_call"
    /\ UNCHANGED <<text, max_tokens, sections, secIdx, chunks, chunkIdx, fbAcc,
                   feedback, role, keywords, present, missing, done, button, pdf>>

\* role = <generated text>.strip()
RoleReturn ==
    /\ pc = "role_call"
    /\ \E response \in RoleResponses :
        /\ role' = Strip(response)
        /\ calls' = EndCall(calls, "returned", response)
    /\ pc' = "role_done"
    /\ UNCHANGED <<text, max_tokens, sections, secIdx, chunks, chunkIdx, fbAcc,
                   feedback, keywords, present, missing, done, button, pdf>>

\* RoleRaise with the failure absorbed: the role is empty, the run goes on
RoleRaise_absorb ==
    /\ pc = "role_call"
    /\ \E desc \in FailDescs : calls' = EndCall(calls, "raised", desc)
    /\ role' = <<>>
    /\ pc' = "role_done"
    /\ UNCHANGED <<text, max_tokens, sections, secIdx, chunks, chunkIdx, fbAcc,
                   feedback, keywords, present, missing, done, button, pdf>>

\* the exception leaves infer_role_keywords and ends the script run
RoleRaise ==
    /\ pc = "role_call"
    /\ \E desc \in FailDescs : calls' = EndCall(calls, "raised", desc)
    /\ pc' = "aborted"
    /\ UNCHANGED <<text, max_tokens, sections, secIdx, chunks, chunkIdx, fbAcc,
                   feedback, role, keywords, present, missing, done, button, pdf>>

\* analyzer(prompt_keywords), whatever role is
KeywordsCall ==
    /\ pc = "role_done"
    /\ calls' = Append(calls, Call("keywords", <<>>, 0))
    /\ pc' = "kw_call"
    /\ UNCHANGED <<text, max_tokens, sections, secIdx, chunks, chunkIdx, fbAcc,
                   feedback, role, keywords, present, missing, done, button, pdf>>

\* keywords parsed from the response; infer_role_keywords returns
KeywordsReturn ==
    /\ pc = "kw_call"
    /\ \E response \in KeywordResponses :
        /\ keywords' = ParseKeywords(response)
        /\ calls' = EndCall(calls, "returned", response)
    /\ done' = done \cup {"keywords"}
    /\ pc' = "irk_done"
    /\ UNCHANGED <<text, max_tokens, sections, secIdx, chunks, chunkIdx, fbAcc,
                   feedback, role, present, missing, button, pdf>>

\* the exception leaves infer_role_keywords and ends the script run
KeywordsRaise ==
    /\ pc = "kw_call"
    /\ \E desc \in FailDescs : calls' = EndCall(calls, "raised", desc)
    /\ pc' = "aborted"
    /\ UNCHANGED <<text, max_tokens, sections, secIdx, chunks, chunkIdx, fbAcc,
                   feedback, role, keywords, present, missing, done, button, pdf>>

\* present, missing = check_ats_keywords(resume_text, keywords), shown
CheckAtsKeywords ==
    /\ pc = "irk_done"
    /\ present' = AtsPresent(text, keywords)
    /\ missing' = AtsMissing(text, keywords)
    /\ done' = done \cup {"matched"}
    /\ pc' = "pdf_button"
    /\ UNCHANGED <<text, max_tokens, sections, secIdx, chunks, chunkIdx, fbAcc,
                   feedback, calls, role, keywords, button, pdf>>

\* st.button("Generate PDF") is True in this run: create_pdf, download button
CreatePdf ==
    /\ pc = "pdf_button"
    /\ button
    /\ pdf' = <<create_pdf(feedback, role, present, missing)>>
    /\ done' = done \cup {"pdf"}
    /\ pc' = "idle"
    /\ UNCHANGED <<text, max_tokens, sections, secIdx, chunks, chunkIdx, fbAcc,
                   feedback, calls, role, keywords, present, missing, button>>

\* st.button("Generate PDF") is False in this run: the script ends
NoPdf ==
    /\ pc = "pdf_button"
    /\ ~button
    /\ pc' = "idle"
    /\ UNCHANGED <<text, max_tokens, sections, secIdx, chunks, chunkIdx, fbAcc,
                   feedback, calls, role, keywords, present, missing, done,
                   button, pdf>>

\* the user presses the rendered button: the script runs again from the top
\* on the same upload, and st.button returns True in that run
ClickGeneratePdf ==
    /\ pc = "idle"
    /\ pc' = "start"
    /\ button' = TRUE
    /\ max_tokens' = 0
    /\ sections' = <<>>
    /\ secIdx' = 0
    /\ chunks' = <<>>
    /\ chunkIdx' = 0
    /\ fbAcc' = <<>>
    /\ feedback' = <<>>
    /\ calls' = <<>>
    /\ role' = <<>>
    /\ keywords' = <<>>
    /\ present' = <<>>
    /\ missing' = <<>>
    /\ done' = {}
    /\ pdf' = <<>>
    /\ UNCHANGED text

\* the steps of one script run
Run ==
    \/ GenerateFeedback
    \/ RewriteBlank
    \/ RewriteEnter
    \/ RewriteCall
    \/ RewriteReturn
    \/ RewriteRaise
    \/ RewriteExit
    \/ GenerateFeedbackReturn
    \/ RoleCall
    \/ RoleReturn
    \/ RoleRaise
    \/ KeywordsCall
    \/ KeywordsReturn
    \/ KeywordsRaise
    \/ CheckAtsKeywords
    \/ CreatePdf
    \/ NoPdf

Next == Run \/ ClickGeneratePdf

Spec == Init /\ [][Next]_vars

\* a script run goes on while it can: every call of analyzer returns or
\* raises, and nothing else in the run waits. The user need not click.
FairSpec == Spec /\ WF_vars(Run)

----------------------------------------------------------------------------
(* Claims about split_sections (SpecSplit) *)

\* the values of dict d, concatenated in key order
RECURSIVE ConcatVals(_, _)
ConcatVals(d, i) == IF i > Len(d) THEN <<>> ELSE d[i].val \o ConcatVals(d, i + 1)

\* the lines ls, each followed by a newline
RECURSIVE Terminated(_, _)
Terminated(ls, i) ==
    IF i > Len(ls) THEN <<>> ELSE ls[i] \o <<NL>> \o Terminated(ls, i + 1)

\* the lines of t, a newline at the end of t ending its last line
TextLines(t) ==
    LET p == Split(t, NL)
    IN IF t = <<>> THEN <<>>
       ELSE IF t[Len(t)] = NL THEN SubSeq(p, 1, Len(p) - 1)
       ELSE p

IsHeaderLine(l) == Upper(Strip(l)) \in Headers

\* C1: concatenating the section accumulators in key order reproduces the
\* lines of the input, none lost, duplicated, added or reordered. Read in
\* the most lenient way: the lines may be counted with or without an empty
\* line after a final newline, and the header lines may or may not be part
\* of what is reproduced.
C1_RoundTrip ==
    pc = "split_out" =>
        LET c == ConcatVals(sections, 1)
        IN \E ls \in {TextLines(text), Split(text, NL)} :
              \/ c = Terminated(ls, 1)
              \/ c = Terminated(SelectSeq(ls, LAMBDA l : ~IsHeaderLine(l)), 1)

\* C7: the example text splits into SUMMARY: "Built systems.\n" and
\* EXPERIENCE: "Led team of 5.\n", in that order, with nothing appended to
\* the last section.
C7_Example ==
    (pc = "split_out" /\ text = ExampleText) =>
        sections = << [key |-> SUMMARY, val |-> BuiltSystems \o <<NL>>],
                      [key |-> EXPERIENCE, val |-> LedTeam \o <<NL>>] >>

----------------------------------------------------------------------------
(* Claims about chunk_text (SpecChunk) *)

\* the words of the chunks cs, in chunk order
RECURSIVE ChunkWords(_, _)
ChunkWords(cs, i) ==
    IF i > Len(cs) THEN <<>> ELSE Words(cs[i]) \o ChunkWords(cs, i + 1)

\* the sum of the chunks' word counts
RECURSIVE WordCount(_, _)
WordCount(cs, i) ==
    IF i > Len(cs) THEN 0 ELSE Len(Words(cs[i])) + WordCount(cs, i + 1)

\* C6: the chunks' word counts add up to the word count of the input, the
\* chunks' words in chunk order are the input's words, no chunk has more
\* than max_tokens words, and an input of no words gives no chunk.
C6_Chunks ==
    pc = "chunk_out" =>
        /\ WordCount(chunks, 1) = Len(Words(text))
        /\ ChunkWords(chunks, 1) = Words(text)
        /\ \A i \in 1..Len(chunks) : Len(Words(chunks[i])) <= max_tokens
        /\ (Words(text) = <<>> => chunks = <<>>)

\* three words cut into a chunk of two words and a chunk of one
C6_Witness ==
    /\ pc = "chunk_out"
    /\ max_tokens = 2
    /\ Len(Words(text)) = 3
    /\ Len(chunks) = 2
    /\ Len(Words(chunks[1])) = 2

----------------------------------------------------------------------------
(* Claims about check_ats_keywords (SpecAts) *)

\* kw occurs in t as a contiguous phrase, compared case-insensitively, with
\* a word boundary at both ends
PhraseOccurs(kw, t) ==
    \E st \in 0..(Len(t) - Len(kw)) :
        /\ Boundary(t, st)
        /\ \A i \in 1..Len(kw) : LowerChar(kw[i]) = LowerChar(t[st + i])
        /\ Boundary(t, st + Len(kw))

\* C5: present and missing split the keywords, in order, each occurrence in
\* exactly one of them, and a keyword is in present exactly if it occurs in
\* the text as a phrase, case-insensitively, between word boundaries.
C5_Partition ==
    pc = "ats_out" =>
        /\ present = SelectSeq(keywords, LAMBDA kw : PhraseOccurs(kw, text))
        /\ missing = SelectSeq(keywords, LAMBDA kw : ~PhraseOccurs(kw, text))

----------------------------------------------------------------------------
(* Claims about the script run (Spec, FairSpec) *)

\* the calls of cs that are rewrite calls for section sec
RewriteCallsOf(cs, sec) ==
    SelectSeq(cs, LAMBDA c : c.kind = "rewrite" /\ c.sec = sec)

\* what the claim puts in the slot of the chunk of call c
Slot(c) == IF c.status = "raised" THEN ErrorPrefix \o c.out ELSE Strip(c.out)

\* needle occurs in hay
IsSubstring(needle, hay) ==
    \E st \in 0..(Len(hay) - Len(needle)) :
        \A i \in 1..Len(needle) : hay[st + i] = needle[i]

\* the sections whose rewrite_section call has returned
Rewritten == IF pc \in {"start", "split_in", "chunk_in", "ats_in"} THEN {}
             ELSE 1..Min(secIdx - 1, Len(sections))

\* C3: a non-blank section of n >= 2 chunks with a failed chunk call: every
\* chunk was called, in order; the feedback is the n slots in chunk order,
\* one per line, the marker "Error analyzing chunk: <description>" in the
\* slot of each failed chunk and the stripped generated text in the others,
\* the whole stripped.
C3_ChunkFailure ==
    pc = "gf_loop" =>
        \A s \in Rewritten :
            LET cs == RewriteCallsOf(calls, sections[s].key)
            IN (Len(cs) >= 2 /\ \E k \in 1..Len(cs) : cs[k].status = "raised") =>
                /\ Len(cs) = Len(chunk_text(sections[s].val, RewriteMaxTokens))
                /\ \A k \in 1..Len(cs) : cs[k].chunk = k /\ cs[k].status # "pending"
                /\ DictGet(feedback, sections[s].key)
                      = Strip(Terminated([k \in 1..Len(cs) |-> Slot(cs[k])], 1))
                /\ IsSubstring(SubSeq(ErrorPrefix, 1, Len(ErrorPrefix) - 2),
                               DictGet(feedback, sections[s].key))

\* a section of three chunks whose second call failed and whose first and
\* third calls returned a text
C3_Witness ==
    /\ pc = "gf_loop"
    /\ \E s \in Rewritten :
        LET cs == RewriteCallsOf(calls, sections[s].key)
        IN /\ Len(cs) = 3
           /\ cs[1].status = "returned" /\ cs[1].out # <<>>
           /\ cs[2].status = "raised"
           /\ cs[3].status = "returned" /\ cs[3].out # <<>>
           /\ DictGet(feedback, sections[s].key)
                = <<"o","k",NL>> \o ErrorPrefix \o <<"b","o","o","m",NL,"o","k">>

\* C4: a section whose text is empty or only whitespace gets the message
\* "<name> section is missing or empty." and no call of analyzer.
C4_BlankSection ==
    \A s \in Rewritten :
        (\A j \in 1..Len(sections[s].val) : IsSpace(sections[s].val[j])) =>
            /\ DictHas(feedback, sections[s].key)
            /\ DictGet(feedback, sections[s].key) = sections[s].key \o MissingSuffix
            /\ \A i \in 1..Len(calls) : calls[i].sec # sections[s].key

\* a rewritten section of whitespace only, and an empty one
C4_Witness ==
    /\ \E s \in Rewritten :
        /\ sections[s].val # <<>>
        /\ \A j \in 1..Len(sections[s].val) : IsSpace(sections[s].val[j])
    /\ \E s \in Rewritten : sections[s].val = <<>>

\* C2: once role inference has returned the empty role, no keyword request
\* is made and keywords, present and missing are empty.
C2_EmptyRole ==
    (role = <<>> /\ \E i \in 1..Len(calls) :
                        calls[i].kind = "role" /\ calls[i].status = "returned") =>
        /\ \A i \in 1..Len(calls) : calls[i].kind # "keywords"
        /\ keywords = <<>>
        /\ present = <<>>
        /\ missing = <<>>

\* C8: generate_feedback returns, whatever calls fail, and its dict has the
\* keys of the dict split_sections returned, in the same order, one entry
\* per section.
C8_Completes ==
    (pc = "start") ~>
        (/\ pc = "gf_done"
         /\ DictKeys(feedback) = DictKeys(sections)
         /\ Len(feedback) = Len(sections))

\* generate_feedback has returned for two sections after a failed call
C8_Witness ==
    /\ pc = "gf_done"
    /\ Len(feedback) = 2
    /\ DictKeys(feedback) = DictKeys(sections)
    /\ \E i \in 1..Len(calls) : calls[i].status = "raised"

\* the rewrite calls generate_feedback is to make for sections ss from
\* section s on: one per chunk of each non-blank section, in order
RECURSIVE ExpectedCalls(_, _)
ExpectedCalls(ss, s) ==
    IF s > Len(ss) THEN <<>>
    ELSE (IF \A j \in 1..Len(ss[s].val) : IsSpace(ss[s].val[j])
          THEN <<>>
          ELSE [k \in 1..Len(chunk_text(ss[s].val, RewriteMaxTokens)) |->
                    <<ss[s].key, k>>])
         \o ExpectedCalls(ss, s + 1)

\* the section and chunk of the rewrite calls made, in call order
RewriteCallsMade ==
    LET cs == SelectSeq(calls, LAMBDA c : c.kind = "rewrite")
    IN [i \in 1..Len(cs) |-> <<cs[i].sec, cs[i].chunk>>]

\* C9: the rewrite calls are made one per chunk of each non-blank section,
\* in section order and chunk order, none twice; only the last call made
\* can still be running.
C9_OneCallPerChunk ==
    /\ \A i \in 1..(Len(calls) - 1) : calls[i].status # "pending"
    /\ pc \in {"gf_loop", "rs_loop", "rs_call", "gf_done"} =>
        LET made == RewriteCallsMade
            want == ExpectedCalls(sections, 1)
        IN /\ Len(made) <= Len(want)
           /\ made = SubSeq(want, 1, Len(made))
           /\ (pc = "gf_done" => made = want)

\* generate_feedback has returned after three calls for two sections, one
\* call for the first and two for the second, the second call failed
C9_Witness ==
    /\ pc = "gf_done"
    /\ Len(calls) = 3
    /\ calls[1].sec # calls[2].sec
    /\ calls[2].status = "raised"
    /\ calls[3].chunk = 2

\* rewrite calls come first, then the role call, then the keyword call
KindRank(k) == CASE k = "rewrite" -> 1 [] k = "role" -> 2 [] k = "keywords" -> 3

\* C10: the role call and then the keyword call follow all rewrite calls;
\* a failed rewrite call never ends the run; a failed role or keyword call
\* ends it with no keywords, no matching and no PDF, and nothing more
\* happens in that run.
C10_Unrecovered ==
    /\ \A i, j \in 1..Len(calls) :
          i < j => /\ KindRank(calls[i].kind) <= KindRank(calls[j].kind)
                   /\ calls[i].kind = calls[j].kind => calls[i].kind = "rewrite"
    /\ (\E i \in 1..Len(calls) : calls[i].kind = "role") => "feedback" \in done
    /\ \A i \in 1..Len(calls) :
          (calls[i].kind = "rewrite" /\ calls[i].status = "raised") =>
              (pc # "aborted" \/ i < Len(calls))
    /\ (\E i \in 1..Len(calls) :
            calls[i].kind \in {"role", "keywords"} /\ calls[i].status = "raised") =>
          /\ pc = "aborted"
          /\ keywords = <<>>
          /\ present = <<>> /\ missing = <<>>
          /\ done = {"feedback"}
          /\ pdf = <<>>
          /\ ~ENABLED Next
    /\ pc = "aborted" =>
          /\ calls[Len(calls)].kind \in {"role", "keywords"}
          /\ calls[Len(calls)].status = "raised"

\* a run in which a rewrite call failed and was absorbed, the role call
\* returned, and the keyword call failed, in the run started by the button
C10_Witness ==
    /\ pc = "aborted"
    /\ button
    /\ Len(calls) >= 3
    /\ calls[1].status = "raised"
    /\ calls[Len(calls)].kind = "keywords"

====
